---------------------------- MODULE Spec2Model ----------------------------
(***************************************************************************)
(* CSV import reconciliation of YIN-PIMS: the three import modals          *)
(* (club members, participants, volunteers), each with its preview         *)
(* builder (processFile) and its import executor (handleImport).           *)
(*                                                                         *)
(* A string is a finite sequence of symbols.  A symbol is a character      *)
(* ("a", "A", "x", "X", " ", "_") or, for cells whose spelling is never    *)
(* inspected below the word level (roles, dates, institutions), a whole    *)
(* word.  trim and toLowerCase are computed symbol by symbol.              *)
(***************************************************************************)
EXTENDS Integers, Sequences, FiniteSets, TLC

VARIABLES
    kind,              \* which import modal is mounted
    file,              \* the file the operator uploads
    participants,      \* prop: snapshot of the participant collection
    clubMemberships,   \* prop: snapshot of the club memberships (members modal)
    volunteers,        \* prop: snapshot of the volunteer records (volunteers modal)
    isOpen,            \* prop: the modal is shown
    step,              \* useState: 'upload' | 'preview' | 'importing'
    previewData,       \* useState: PreviewRow[]
    toasts,            \* addToast calls since the modal was opened
    pc,                \* position of the running handleImport ("idle": none)
    runRows,           \* handleImport: the previewData its closure iterates
    idx,               \* handleImport: index of the row being processed
    stats,             \* handleImport: local stats accumulator
    tempParticipants,  \* handleImport: shadow copy (members modal)
    calls,             \* persistence calls issued since the modal was opened
    absorbed,          \* history: the snapshot holds what a fully successful run
                       \* of this file wrote
    selectedColumns    \* export modal, useState: Set<ColumnKey>, in insertion order

vars == <<kind, file, participants, clubMemberships, volunteers, isOpen, step,
          previewData, toasts, pc, runRows, idx, stats, tempParticipants, calls,
          absorbed, selectedColumns>>

-----------------------------------------------------------------------------
(* Bounds of the model *)

MaxRows == 2            \* rows in an uploaded file
MaxInitial == 1         \* participants in the initial snapshot
MaxParticipants == 2    \* records a collection of a refreshed snapshot may hold
ScenarioRows == 3       \* rows in a file of the three-row scenario
MaxExported == 2        \* participants handed to an export
MaxToasts == 2          \* rejected uploads followed while the modal is open

-----------------------------------------------------------------------------
(* JavaScript values and string operations *)

Undefined == <<"undefined">>     \* the value of a missing cell / column
Empty == <<>>                    \* the empty string ''

Truthy(v) == v # Undefined /\ v # Empty

\* a || b
Or(a, b) == IF Truthy(a) THEN a ELSE b

IsSpace(c) == c = " "

LowerChar(c) == IF c = "A" THEN "a" ELSE IF c = "X" THEN "x" ELSE c

\* String.prototype.toLowerCase
toLowerCase(s) == [i \in DOMAIN s |-> LowerChar(s[i])]

RECURSIVE trimStart(_)
trimStart(s) ==
    IF s # <<>> /\ IsSpace(Head(s)) THEN trimStart(Tail(s)) ELSE s

RECURSIVE trimEnd(_)
trimEnd(s) ==
    IF s # <<>> /\ IsSpace(s[Len(s)]) THEN trimEnd(SubSeq(s, 1, Len(s) - 1)) ELSE s

\* String.prototype.trim
trim(s) == trimEnd(trimStart(s))

\* v?.trim()
OptTrim(v) == IF v = Undefined THEN Undefined ELSE trim(v)

\* the template literal `${a}_${b}`
Template(a, b) == a \o <<"_">> \o b

Range(s) == {s[i] : i \in DOMAIN s}

\* the result of a find / Map.get that found nothing
NoParticipant ==
    [id |-> 0, name |-> Undefined, contact |-> Undefined, institution |-> Undefined]

Min(S) == CHOOSE m \in S : \A n \in S : m <= n
Max(S) == CHOOSE m \in S : \A n \in S : n <= m

\* Array.prototype.find over the indices whose element passes the test: the
\* first such element, else undefined (NoParticipant)
FindFirst(s, hits) == IF hits = {} THEN NoParticipant ELSE s[Min(hits)]

\* new Map(entries).get(key) over the indices whose entry has the key: a later
\* entry replaces an earlier one with the same key, so the last one is found
MapGetLast(s, hits) == IF hits = {} THEN NoParticipant ELSE s[Max(hits)]

-----------------------------------------------------------------------------
(* Types *)

VOLUNTEER_ROLES_LIST ==
    {<<"Event Staff">>, <<"Mentor">>, <<"Logistics">>, <<"Administrative">>,
     <<"Fundraising">>}

\* the club the members modal imports into, and another club
club == [id |-> "club1", institution |-> <<"UG">>]
OtherClubId == "club2"

New == "New Participant"
Existing == "Existing Participant"
AlreadyMember == "Already a Member"
AlreadyVolunteer == "Already a Volunteer"
AlreadyExists == "Participant Already Exists"
Invalid == "Invalid Data"

\* a parsed CSV row: column name -> cell
Row(name, contact, role, startDate, NAMES, CONTACT, INSTITUTION) ==
    [Name |-> name, Contact |-> contact, Role |-> role, StartDate |-> startDate,
     NAMES |-> NAMES, CONTACT |-> CONTACT, INSTITUTION |-> INSTITUTION]

Columns == {"Name", "Contact", "Role", "StartDate", "NAMES", "CONTACT", "INSTITUTION"}

PreviewRow(row, status) == [data |-> row, status |-> status]

Participant(id, name, contact, institution) ==
    [id |-> id, name |-> name, contact |-> contact, institution |-> institution]

-----------------------------------------------------------------------------
(* Club-member importer: preview *)

\* new Set(clubMemberships.filter(cm => cm.clubId === club.id).map(cm => cm.participantId))
clubMemberIds(cms) ==
    {cms[i].participantId : i \in {j \in DOMAIN cms : cms[j].clubId = club.id}}

\* participants.find(p => p.name === row.Name && p.contact === row.Contact)
Members_find(row, ps) ==
    FindFirst(ps, {i \in DOMAIN ps :
                     ps[i].name = row.Name /\ ps[i].contact = row.Contact})

\* the status the map callback of processFile gives a row
Members_status(row, ps, cms) ==
    IF ~Truthy(row.Name) \/ ~Truthy(row.Contact) THEN Invalid
    ELSE LET existingParticipant == Members_find(row, ps) IN
         IF existingParticipant # NoParticipant
         THEN IF existingParticipant.id \in clubMemberIds(cms)
              THEN AlreadyMember
              ELSE Existing
         ELSE New

Members_validatedData(rows, ps, cms) ==
    [i \in DOMAIN rows |-> PreviewRow(rows[i], Members_status(rows[i], ps, cms))]

-----------------------------------------------------------------------------
(* Volunteer importer: preview *)

\* new Set(volunteers.map(v => v.participantId))
volunteerParticipantIds(vols) == {vols[i].participantId : i \in DOMAIN vols}

\* the key of a participantMap entry
Volunteers_participantKey(p) ==
    Template(toLowerCase(p.name), toLowerCase(p.contact))

\* participantMap.get(key)
Volunteers_mapGet(ps, key) ==
    MapGetLast(ps, {i \in DOMAIN ps : Volunteers_participantKey(ps[i]) = key})

\* the key processFile builds for a row
Volunteers_previewKey(row) ==
    Template(toLowerCase(OptTrim(row.Name)), toLowerCase(OptTrim(row.Contact)))

\* the classification without the VOLUNTEER_ROLES_LIST.includes(role) test:
\* any non-empty Role is accepted
Volunteers_status_AnyRole(row, ps, vols) ==
    LET name == OptTrim(row.Name)
        contact == OptTrim(row.Contact)
        role == OptTrim(row.Role)
    IN  IF ~Truthy(name) \/ ~Truthy(contact) \/ ~Truthy(role) THEN Invalid
        ELSE LET existingParticipant == Volunteers_mapGet(ps, Volunteers_previewKey(row)) IN
             IF existingParticipant # NoParticipant
             THEN IF existingParticipant.id \in volunteerParticipantIds(vols)
                  THEN AlreadyVolunteer
                  ELSE Existing
             ELSE New

Volunteers_status(row, ps, vols) ==
    LET name == OptTrim(row.Name)
        contact == OptTrim(row.Contact)
        role == OptTrim(row.Role)
    IN  IF ~Truthy(name) \/ ~Truthy(contact) \/ ~Truthy(role) THEN Invalid
        ELSE IF role \notin VOLUNTEER_ROLES_LIST THEN Invalid
        ELSE LET existingParticipant == Volunteers_mapGet(ps, Volunteers_previewKey(row)) IN
             IF existingParticipant # NoParticipant
             THEN IF existingParticipant.id \in volunteerParticipantIds(vols)
                  THEN AlreadyVolunteer
                  ELSE Existing
             ELSE New

Volunteers_validatedData(rows, ps, vols) ==
    [i \in DOMAIN rows |-> PreviewRow(rows[i], Volunteers_status(rows[i], ps, vols))]

-----------------------------------------------------------------------------
(* Participant importer: preview *)

Null == "null"

\* the key of a participantMap entry
Participants_participantKey(p) ==
    Template(toLowerCase(trim(p.name)), trim(p.contact))

\* row.NAMES?.trim() || row.Name?.trim()
Participants_name(row) == Or(OptTrim(row.NAMES), OptTrim(row.Name))

\* row.CONTACT?.trim() || row.Contact?.trim()
Participants_contact(row) == Or(OptTrim(row.CONTACT), OptTrim(row.Contact))

\* the key processFile builds for a row
Participants_previewKey(row) ==
    Template(toLowerCase(Participants_name(row)), Participants_contact(row))

\* participantMap.has(key)
Participants_mapHas(ps, key) ==
    \E i \in DOMAIN ps : Participants_participantKey(ps[i]) = key

\* the status the map callback gives a row; Null for a row it drops
Participants_status(row, ps) ==
    LET name == Participants_name(row)
        contact == Participants_contact(row)
    IN  IF ~Truthy(name) /\ ~Truthy(contact) /\ \A c \in Columns : ~Truthy(row[c])
        THEN Null
        ELSE IF ~Truthy(name) \/ ~Truthy(contact) THEN Invalid
        ELSE IF Participants_mapHas(ps, Participants_previewKey(row)) THEN AlreadyExists
        ELSE New

NotNull(pr) == pr.status # Null

\* parsedRows.map(...).filter(Boolean)
Participants_validatedData(rows, ps) ==
    SelectSeq([i \in DOMAIN rows |-> PreviewRow(rows[i], Participants_status(rows[i], ps))],
              NotNull)

-----------------------------------------------------------------------------
(* The inputs the model follows: uploaded files and initial snapshots *)

U == Undefined

\* rows uploaded to the club-member importer (columns Name, Contact)
MembersRows ==
    { Row(<<"a">>, <<"x">>, U, U, U, U, U),
      Row(<<"A", " ">>, <<"x">>, U, U, U, U, U),
      Row(<<"a">>, <<"X">>, U, U, U, U, U),
      Row(<<"a">>, <<"x", " ">>, U, U, U, U, U),
      Row(<<" ">>, <<"x">>, U, U, U, U, U),
      Row(<<"a">>, U, U, U, U, U, U),
      Row(Empty, Empty, U, U, U, U, U) }

\* rows uploaded to the volunteer importer (columns Name, Contact, Role, StartDate)
VolunteersRows ==
    { Row(<<"a">>, <<"x">>, <<"Mentor">>, U, U, U, U),
      Row(<<"A", " ">>, <<"x">>, <<"Mentor">>, <<"2024-08-01">>, U, U, U),
      Row(<<"a">>, <<"X", " ">>, <<"Mentor", " ">>, Empty, U, U, U),
      Row(<<"a">>, <<"x">>, <<"Boss">>, U, U, U, U),
      Row(<<"a">>, <<"x">>, U, U, U, U, U),
      Row(<<"a">>, <<"x">>, <<" ">>, U, U, U, U),
      Row(<<"a">>, <<"x">>, <<"Mentor">>, <<"soon">>, U, U, U),
      Row(<<" ">>, <<"x">>, <<"Mentor">>, U, U, U, U),
      Row(Empty, Empty, Empty, Empty, U, U, U) }

\* rows uploaded to the participant importer (columns NAMES/Name, CONTACT/Contact,
\* INSTITUTION)
ParticipantsRows ==
    { Row(U, U, U, U, <<"a">>, <<"x">>, U),
      Row(<<"A", " ">>, <<"x">>, U, U, U, U, U),
      Row(<<"a">>, U, U, U, <<" ">>, <<"x">>, U),
      Row(U, U, U, U, <<"a">>, <<"X">>, U),
      Row(U, U, U, U, <<"a">>, U, U),
      Row(U, U, U, U, Empty, Empty, <<"UG">>),
      Row(U, U, U, U, <<" ">>, <<" ">>, U),
      Row(U, U, U, U, Empty, Empty, Empty) }

RowsOf(k) ==
    IF k = "members" THEN MembersRows
    ELSE IF k = "volunteers" THEN VolunteersRows
    ELSE ParticipantsRows

SeqsUpTo(S, n) == UNION {[1..m -> S] : m \in 0..n}

\* new Date(s) is a valid date exactly for the strings of this set
ParseableDates == {<<"2024-08-01">>}

CsvType == "text/csv"
ExcelType == "application/vnd.ms-excel"

File(type, csvName, parses, rows) ==
    [type |-> type, csvName |-> csvName, parses |-> parses, rows |-> rows]

\* a CSV file that parseCsv reads, and three files that are rejected somewhere
FilesOf(k) ==
    {File(CsvType, TRUE, TRUE, rows) : rows \in SeqsUpTo(RowsOf(k), MaxRows)}
    \cup {File(ExcelType, TRUE, TRUE, rows) : rows \in SeqsUpTo(RowsOf(k), 1)}
    \cup {File(ExcelType, FALSE, TRUE, rows) : rows \in SeqsUpTo(RowsOf(k), 1)}
    \cup {File(CsvType, TRUE, FALSE, <<>>)}

\* name, contact and institution of the participants of an initial snapshot
StoredPeople ==
    { <<(<<"a">>), (<<"x">>), (<<"UG">>)>>,
      <<(<<"a">>), (<<"x">>), (<<"KNUST">>)>>,
      <<(<<"a", " ">>), (<<"x">>), (<<"UG">>)>> }

\* what an initial participant holds: nothing, the relation the importer
\* attaches (membership of this club, a volunteer record), or a membership of
\* another club
RelationsOf(k) ==
    IF k = "members" THEN {"none", "held", "other"}
    ELSE IF k = "volunteers" THEN {"none", "held"}
    ELSE {"none"}

InitialPeople(k) == SeqsUpTo(StoredPeople \X RelationsOf(k), MaxInitial)

SnapshotParticipants(people) ==
    [i \in DOMAIN people |->
        Participant(i, people[i][1][1], people[i][1][2], people[i][1][3])]

Held(person) == person[2] # "none"

Membership(pid, clubId) == [participantId |-> pid, clubId |-> clubId]
Volunteer(pid) == [participantId |-> pid]

SnapshotMemberships(people) ==
    LET holders == SelectSeq([i \in DOMAIN people |-> <<i, people[i][2]>>], Held)
    IN  [j \in DOMAIN holders |->
            Membership(holders[j][1],
                       IF holders[j][2] = "held" THEN club.id ELSE OtherClubId)]

SnapshotVolunteers(people) ==
    LET holders == SelectSeq([i \in DOMAIN people |-> <<i, people[i][2]>>], Held)
    IN  [j \in DOMAIN holders |-> Volunteer(holders[j][1])]

-----------------------------------------------------------------------------
(* Modal state *)

ZeroStats(k) ==
    IF k = "volunteers" THEN [new |-> 0, existing |-> 0, skipped |-> 0, failed |-> 0]
    ELSE IF k = "members" THEN [new |-> 0, existing |-> 0, skipped |-> 0]
    ELSE [created |-> 0]

Toast(type, text, st) == [type |-> type, text |-> text, stats |-> st]

Init ==
    /\ kind \in {"members", "participants", "volunteers"}
    /\ file \in FilesOf(kind)
    /\ \E people \in InitialPeople(kind) :
          /\ participants = SnapshotParticipants(people)
          /\ clubMemberships =
                IF kind = "members" THEN SnapshotMemberships(people) ELSE <<>>
          /\ volunteers =
                IF kind = "volunteers" THEN SnapshotVolunteers(people) ELSE <<>>
    /\ isOpen = TRUE
    /\ step = "upload"
    /\ previewData = <<>>
    /\ toasts = <<>>
    /\ pc = "idle"
    /\ runRows = <<>>
    /\ idx = 0
    /\ stats = ZeroStats(kind)
    /\ tempParticipants = <<>>
    /\ calls = <<>>
    /\ absorbed = FALSE
    /\ selectedColumns = <<>>

snapshotVars == <<participants, clubMemberships, volunteers>>
runVars == <<pc, runRows, idx, stats, tempParticipants, calls>>

\* resetState: setStep('upload'); setPreviewData([])
resetState ==
    /\ step' = "upload"
    /\ previewData' = <<>>

\* the Back button of the preview step
Back ==
    /\ isOpen
    /\ step = "preview"
    /\ resetState
    /\ UNCHANGED <<kind, file, absorbed, selectedColumns, snapshotVars, isOpen, toasts, runVars>>

\* handleClose, from the modal's close control: resetState(); onClose()
handleClose ==
    /\ isOpen
    /\ resetState
    /\ isOpen' = FALSE
    /\ UNCHANGED <<kind, file, absorbed, selectedColumns, snapshotVars, toasts, runVars>>

\* a rejection that reports its error twice
RejectUpload_Twice(text) ==
    /\ Len(toasts) < MaxToasts
    /\ toasts' = toasts \o << Toast("error", text, ZeroStats(kind)),
                               Toast("error", text, ZeroStats(kind)) >>
    /\ UNCHANGED <<step, previewData>>

\* addToast(message, 'error') of a rejected upload
RejectUpload(text) ==
    /\ Len(toasts) < MaxToasts
    /\ toasts' = Append(toasts, Toast("error", text, ZeroStats(kind)))
    /\ UNCHANGED <<step, previewData>>

ShowPreview(validatedData) ==
    /\ previewData' = validatedData
    /\ step' = "preview"
    /\ UNCHANGED toasts

\* ImportMembersModal.processFile
Members_processFile ==
    /\ kind = "members"
    /\ isOpen
    /\ step = "upload"
    /\ IF file.type # CsvType
       THEN RejectUpload("Invalid file type. Please upload a CSV file.")
       ELSE IF ~file.parses
       THEN RejectUpload("Failed to parse CSV file. Check format.")
       ELSE ShowPreview(Members_validatedData(file.rows, participants, clubMemberships))
    /\ UNCHANGED <<kind, file, absorbed, selectedColumns, snapshotVars, isOpen, runVars>>

\* ImportVolunteersModal.processFile
Volunteers_processFile ==
    /\ kind = "volunteers"
    /\ isOpen
    /\ step = "upload"
    /\ IF file.type # CsvType
       THEN RejectUpload("Invalid file type. Please upload a CSV file.")
       ELSE IF ~file.parses
       THEN RejectUpload("Failed to parse CSV file. Check format and content.")
       ELSE IF Len(file.rows) = 0
       THEN RejectUpload("CSV file is empty or invalid.")
       ELSE ShowPreview(Volunteers_validatedData(file.rows, participants, volunteers))
    /\ UNCHANGED <<kind, file, absorbed, selectedColumns, snapshotVars, isOpen, runVars>>

\* ImportParticipantsModal.processFile
Participants_processFile ==
    /\ kind = "participants"
    /\ isOpen
    /\ step = "upload"
    /\ IF file.type # CsvType /\ ~file.csvName
       THEN RejectUpload("Invalid file type. Please upload a CSV file.")
       ELSE IF ~file.parses
       THEN RejectUpload("Failed to parse CSV file. Check format.")
       ELSE IF Len(file.rows) = 0
       THEN RejectUpload("CSV file is empty or invalid.")
       ELSE ShowPreview(Participants_validatedData(file.rows, participants))
    /\ UNCHANGED <<kind, file, absorbed, selectedColumns, snapshotVars, isOpen, runVars>>

-----------------------------------------------------------------------------
(* Persistence calls.  A call is awaited: it is issued with result           *)
(* "pending" and later resolves with a truthy value ("ok"), resolves with a  *)
(* falsy value ("falsy") or rejects ("throw").                               *)

Outcomes == {"ok", "falsy", "throw"}

Call(op, row, arg) == [op |-> op, row |-> row, arg |-> arg, result |-> "pending", id |-> 0]

OkCalls(cs, op) == {i \in DOMAIN cs : cs[i].op = op /\ cs[i].result = "ok"}

\* the id the persistence layer gives the next created participant
NewId(cs) == Len(participants) + Cardinality(OkCalls(cs, "addParticipant")) + 1

\* a call that is not awaited: the loop goes on while it is still pending
Resolved_NotAwaited(cs, outcome) == cs

\* the pending call (the last one issued) resolved with an outcome
Resolved(cs, outcome) ==
    [cs EXCEPT ![Len(cs)].result = outcome,
               ![Len(cs)].id = IF outcome = "ok" /\ cs[Len(cs)].op = "addParticipant"
                               THEN NewId(cs) ELSE 0]

\* the end of handleImport: the summary toast, then handleClose()
Finish(type, text, st) ==
    /\ toasts' = Append(toasts, Toast(type, text, st))
    /\ resetState
    /\ isOpen' = FALSE
    /\ pc' = "idle"

-----------------------------------------------------------------------------
(* Club-member importer: handleImport *)

\* a shadow copy that is the participants prop itself (const tempParticipants =
\* participants): a push onto it lands in the prop
PropAfterPush_Aliased(ps, p) == Append(ps, p)

\* the participants prop after tempParticipants.push(p): tempParticipants is the
\* array [...participants] made at the start of handleImport, so the push
\* leaves the prop as it was
PropAfterPush(ps, p) == ps

\* tempParticipants.find(p => p.name === row.data.Name && p.contact === row.data.Contact)
Members_lookup(row, temp) == Members_find(row.data, temp)

\* a loop that resolves a New row against the shadow copy before creating: a
\* row whose participant an earlier row created only gets its membership
RECURSIVE Members_loop_ShadowFirst(_, _, _, _)
Members_loop_ShadowFirst(rows, i, st, temp) ==
    IF i > Len(rows) THEN [op |-> "return", i |-> i, stats |-> st, pid |-> 0]
    ELSE LET row == rows[i]
             participant == Members_lookup(row, temp)
         IN  IF row.status = Invalid \/ row.status = AlreadyMember
             THEN Members_loop_ShadowFirst(rows, i + 1, [st EXCEPT !.skipped = @ + 1], temp)
             ELSE IF participant # NoParticipant
             THEN [op |-> "addClubMembership", i |-> i, stats |-> st,
                   pid |-> participant.id]
             ELSE IF row.status = New
             THEN [op |-> "addParticipant", i |-> i, stats |-> st, pid |-> 0]
             ELSE Members_loop_ShadowFirst(rows, i + 1, [st EXCEPT !.skipped = @ + 1], temp)

\* the synchronous part of the for loop from row i on: it runs until it reaches
\* an awaited call or the end of the rows
RECURSIVE Members_loop(_, _, _, _)
Members_loop(rows, i, st, temp) ==
    IF i > Len(rows) THEN [op |-> "return", i |-> i, stats |-> st, pid |-> 0]
    ELSE LET row == rows[i] IN
         IF row.status = Invalid \/ row.status = AlreadyMember
         THEN Members_loop(rows, i + 1, [st EXCEPT !.skipped = @ + 1], temp)
         ELSE IF row.status = New
         THEN [op |-> "addParticipant", i |-> i, stats |-> st, pid |-> 0]
         ELSE LET participant == Members_lookup(row, temp) IN
              IF participant # NoParticipant
              THEN [op |-> "addClubMembership", i |-> i, stats |-> st,
                    pid |-> participant.id]
              ELSE Members_loop(rows, i + 1, [st EXCEPT !.skipped = @ + 1], temp)

\* the argument of the call the loop stops at
Members_arg(row, r) ==
    IF r.op = "addParticipant"
    THEN [name |-> row.data.Name, contact |-> row.data.Contact,
          institution |-> club.institution, clubId |-> club.id]
    ELSE [participantId |-> r.pid, clubId |-> club.id]

\* run the loop from row i and stop at its next await, or finish
Members_run(rows, i, st, temp, cs, stepNow) ==
    LET r == Members_loop(rows, i, st, temp) IN
    /\ idx' = r.i
    /\ stats' = r.stats
    /\ tempParticipants' = temp
    /\ runRows' = rows
    /\ IF r.op = "return"
       THEN /\ Finish("success", "Import complete!", r.stats)
            /\ calls' = cs
       ELSE /\ pc' = r.op
            /\ calls' = Append(cs, Call(r.op, r.i, Members_arg(rows[r.i], r)))
            /\ step' = stepNow
            /\ UNCHANGED <<previewData, isOpen, toasts>>

\* importSummary.new + importSummary.existing, which enables Confirm Import
Importable(rows) ==
    Cardinality({i \in DOMAIN rows : rows[i].status = New \/ rows[i].status = Existing})

\* handleImport without setStep('importing'): it writes while the preview is shown
Members_handleImport_InPreview ==
    /\ kind = "members"
    /\ isOpen
    /\ step = "preview"
    /\ Importable(previewData) # 0
    /\ pc = "idle"
    /\ Members_run(previewData, 1, ZeroStats(kind), participants, calls, "preview")
    /\ UNCHANGED <<kind, file, absorbed, selectedColumns, snapshotVars>>

\* ImportMembersModal.handleImport, up to its first await
Members_handleImport ==
    /\ kind = "members"
    /\ isOpen
    /\ step = "preview"
    /\ Importable(previewData) # 0
    /\ pc = "idle"
    /\ Members_run(previewData, 1, ZeroStats(kind), participants, calls, "importing")
    /\ UNCHANGED <<kind, file, absorbed, selectedColumns, snapshotVars>>

\* ImportMembersModal.handleImport resumed when the awaited call settles
Members_resume ==
    /\ kind = "members"
    /\ pc \in {"addParticipant", "addClubMembership"}
    /\ \E outcome \in Outcomes :
          LET row == runRows[idx]
              cs == Resolved(calls, outcome)
              newParticipant ==
                  Participant(cs[Len(cs)].id, row.data.Name, row.data.Contact,
                              club.institution)
          IN  IF outcome = "throw"
              THEN \* no try/catch: the rejection leaves handleImport
                   /\ pc' = "idle"
                   /\ calls' = cs
                   /\ UNCHANGED <<step, previewData, isOpen, toasts, runRows, idx,
                                  stats, tempParticipants, participants>>
              ELSE IF pc = "addParticipant"
              THEN IF outcome = "ok"
                   THEN \* tempParticipants.push(newParticipant)
                        /\ participants' = PropAfterPush(participants, newParticipant)
                        /\ Members_run(runRows, idx + 1, [stats EXCEPT !.new = @ + 1],
                                       Append(tempParticipants, newParticipant), cs, step)
                   ELSE /\ UNCHANGED participants
                        /\ Members_run(runRows, idx + 1, [stats EXCEPT !.skipped = @ + 1],
                                       tempParticipants, cs, step)
              ELSE /\ UNCHANGED participants
                   /\ IF outcome = "ok"
                      THEN Members_run(runRows, idx + 1, [stats EXCEPT !.existing = @ + 1],
                                       tempParticipants, cs, step)
                      ELSE Members_run(runRows, idx + 1, [stats EXCEPT !.skipped = @ + 1],
                                       tempParticipants, cs, step)
    /\ UNCHANGED <<kind, file, absorbed, selectedColumns, clubMemberships, volunteers>>

-----------------------------------------------------------------------------
(* Volunteer importer: handleImport *)

\* row.data.StartDate ? new Date(row.data.StartDate) : new Date(), and whether
\* isNaN(startDate.getTime())
Volunteers_startDate(row) ==
    IF Truthy(row.data.StartDate) THEN row.data.StartDate ELSE <<"now">>

\* a test that takes every start date for a valid one
InvalidDate_Never(d) == FALSE

InvalidDate(d) == d # <<"now">> /\ d \notin ParseableDates

\* the key handleImport builds for an Existing row
Volunteers_importKey(row) ==
    Template(toLowerCase(row.data.Name), toLowerCase(row.data.Contact))

\* a loop that counts an Invalid or Already-a-Volunteer row as failed
RECURSIVE Volunteers_loop_SkipAsFailed(_, _, _, _)
Volunteers_loop_SkipAsFailed(rows, i, st, ps) ==
    IF i > Len(rows) THEN [op |-> "return", i |-> i, stats |-> st, pid |-> 0]
    ELSE LET row == rows[i] IN
         IF row.status = Invalid \/ row.status = AlreadyVolunteer
         THEN Volunteers_loop_SkipAsFailed(rows, i + 1, [st EXCEPT !.failed = @ + 1], ps)
         ELSE IF InvalidDate(Volunteers_startDate(row))
         THEN Volunteers_loop_SkipAsFailed(rows, i + 1, [st EXCEPT !.failed = @ + 1], ps)
         ELSE IF row.status = New
         THEN [op |-> "addParticipant", i |-> i, stats |-> st, pid |-> 0]
         ELSE LET participant == Volunteers_mapGet(ps, Volunteers_importKey(row)) IN
              IF participant # NoParticipant
              THEN [op |-> "addVolunteer", i |-> i, stats |-> st, pid |-> participant.id]
              ELSE Volunteers_loop_SkipAsFailed(rows, i + 1,
                                                [st EXCEPT !.failed = @ + 1], ps)

\* the synchronous part of the for loop from row i on; ps is the participants
\* prop the participantMap of handleImport is built from
RECURSIVE Volunteers_loop(_, _, _, _)
Volunteers_loop(rows, i, st, ps) ==
    IF i > Len(rows) THEN [op |-> "return", i |-> i, stats |-> st, pid |-> 0]
    ELSE LET row == rows[i] IN
         IF row.status = Invalid \/ row.status = AlreadyVolunteer
         THEN Volunteers_loop(rows, i + 1, [st EXCEPT !.skipped = @ + 1], ps)
         ELSE IF InvalidDate(Volunteers_startDate(row))
         THEN \* throw new Error('Invalid start date'), caught by the row's catch
              Volunteers_loop(rows, i + 1, [st EXCEPT !.failed = @ + 1], ps)
         ELSE IF row.status = New
         THEN [op |-> "addParticipant", i |-> i, stats |-> st, pid |-> 0]
         ELSE LET participant == Volunteers_mapGet(ps, Volunteers_importKey(row)) IN
              IF participant # NoParticipant
              THEN [op |-> "addVolunteer", i |-> i, stats |-> st, pid |-> participant.id]
              ELSE Volunteers_loop(rows, i + 1, [st EXCEPT !.failed = @ + 1], ps)

Volunteers_participantArg(row) ==
    [name |-> row.data.Name, contact |-> row.data.Contact,
     institution |-> <<"N/A">>, clubId |-> Undefined]

Volunteers_volunteerArg(row, pid) ==
    [participantId |-> pid, role |-> row.data.Role,
     startDate |-> Volunteers_startDate(row)]

\* run the loop from row i and stop at its next await, or finish
Volunteers_run(rows, i, st, cs, stepNow) ==
    LET r == Volunteers_loop(rows, i, st, participants) IN
    /\ idx' = r.i
    /\ stats' = r.stats
    /\ runRows' = rows
    /\ UNCHANGED tempParticipants
    /\ IF r.op = "return"
       THEN /\ Finish("success", "Import complete!", r.stats)
            /\ calls' = cs
       ELSE /\ pc' = r.op
            /\ calls' =
                 Append(cs, Call(r.op, r.i,
                                 IF r.op = "addParticipant"
                                 THEN Volunteers_participantArg(rows[r.i])
                                 ELSE Volunteers_volunteerArg(rows[r.i], r.pid)))
            /\ step' = stepNow
            /\ UNCHANGED <<previewData, isOpen, toasts>>

\* ImportVolunteersModal.handleImport, up to its first await
Volunteers_handleImport ==
    /\ kind = "volunteers"
    /\ isOpen
    /\ step = "preview"
    /\ Importable(previewData) # 0
    /\ pc = "idle"
    /\ Volunteers_run(previewData, 1, ZeroStats(kind), calls, "importing")
    /\ UNCHANGED <<kind, file, absorbed, selectedColumns, snapshotVars>>

\* ImportVolunteersModal.handleImport resumed when the awaited call settles
Volunteers_resume ==
    /\ kind = "volunteers"
    /\ pc \in {"addParticipant", "addVolunteer"}
    /\ \E outcome \in Outcomes :
          LET row == runRows[idx]
              cs == Resolved(calls, outcome)
          IN  IF outcome = "throw"
              THEN \* catch (e): stats.failed++
                   Volunteers_run(runRows, idx + 1, [stats EXCEPT !.failed = @ + 1],
                                  cs, step)
              ELSE IF pc = "addParticipant"
              THEN IF outcome = "ok"
                   THEN \* await addVolunteer({participantId: newParticipant.id, ...})
                        /\ pc' = "addVolunteer"
                        /\ calls' =
                             Append(cs, Call("addVolunteer", idx,
                                             Volunteers_volunteerArg(row, cs[Len(cs)].id)))
                        /\ UNCHANGED <<step, previewData, isOpen, toasts, runRows, idx,
                                       stats, tempParticipants>>
                   ELSE Volunteers_run(runRows, idx + 1,
                                       [stats EXCEPT !.failed = @ + 1], cs, step)
              ELSE \* the value addVolunteer resolves with is not inspected
                   IF row.status = New
                   THEN Volunteers_run(runRows, idx + 1,
                                       [stats EXCEPT !.new = @ + 1], cs, step)
                   ELSE Volunteers_run(runRows, idx + 1,
                                       [stats EXCEPT !.existing = @ + 1], cs, step)
    /\ UNCHANGED <<kind, file, absorbed, selectedColumns, snapshotVars>>

-----------------------------------------------------------------------------
(* Participant importer: handleImport *)

IsNew(pr) == pr.status = New

\* one element of participantsToCreate
Participants_toCreate(pr) ==
    [name |-> Or(pr.data.NAMES, pr.data.Name),
     contact |-> Or(pr.data.CONTACT, pr.data.Contact),
     institution |-> Or(pr.data.INSTITUTION, <<"N/A">>)]

\* previewData.map(...) without the filter: every preview row is handed over
participantsToCreate_All(rows) == [i \in DOMAIN rows |-> Participants_toCreate(rows[i])]

\* previewData.filter(row => row.status === 'New Participant').map(...)
participantsToCreate(rows) ==
    LET news == SelectSeq(rows, IsNew)
    IN  [i \in DOMAIN news |-> Participants_toCreate(news[i])]

\* ImportParticipantsModal.handleImport, up to its await; Confirm Import is
\* disabled while importSummary.new === 0
Participants_handleImport ==
    /\ kind = "participants"
    /\ isOpen
    /\ step = "preview"
    /\ Cardinality({i \in DOMAIN previewData : previewData[i].status = New}) # 0
    /\ pc = "idle"
    /\ runRows' = previewData
    /\ IF Len(participantsToCreate(previewData)) = 0
       THEN /\ Finish("info", "No new participants to import.", ZeroStats(kind))
            /\ UNCHANGED calls
       ELSE /\ step' = "importing"
            /\ pc' = "addMultipleParticipants"
            /\ calls' = Append(calls, Call("addMultipleParticipants", 0,
                                           participantsToCreate(previewData)))
            /\ UNCHANGED <<previewData, isOpen, toasts>>
    /\ UNCHANGED <<kind, file, absorbed, selectedColumns, snapshotVars, idx, stats, tempParticipants>>

\* ImportParticipantsModal.handleImport resumed when addMultipleParticipants settles
Participants_resume ==
    /\ kind = "participants"
    /\ pc = "addMultipleParticipants"
    /\ \E outcome \in Outcomes :
          LET cs == Resolved(calls, outcome) IN
          /\ calls' = cs
          /\ IF outcome = "ok"
             THEN /\ stats' = [created |-> Len(cs[Len(cs)].arg)]
                  /\ Finish("success", "Import successful!", stats')
             ELSE \* a rejection, or reading .created of a falsy result, is caught
                  /\ stats' = stats
                  /\ Finish("error", "An error occurred during the import process.",
                            ZeroStats(kind))
    /\ UNCHANGED <<kind, file, absorbed, selectedColumns, snapshotVars, runRows, idx, tempParticipants>>

-----------------------------------------------------------------------------
(* The application around the modal *)

IsOk(c) == c.result = "ok"

\* the participants the session's settled writes created, in call order
CreatedParticipants(cs) ==
    IF kind = "participants"
    THEN LET oks == SelectSeq(cs, IsOk)
             items == IF oks = <<>> THEN <<>> ELSE oks[1].arg
         IN  [i \in DOMAIN items |->
                 Participant(Len(participants) + i, items[i].name, items[i].contact,
                             items[i].institution)]
    ELSE LET oks == SelectSeq(cs, LAMBDA c : c.op = "addParticipant" /\ c.result = "ok")
         IN  [i \in DOMAIN oks |->
                 Participant(oks[i].id, oks[i].arg.name, oks[i].arg.contact,
                             oks[i].arg.institution)]

\* the memberships the session's settled writes created: addParticipant with a
\* clubId also joins the club
CreatedMemberships(cs) ==
    LET oks == SelectSeq(cs, LAMBDA c : c.result = "ok"
                                 /\ c.op \in {"addParticipant", "addClubMembership"})
    IN  [i \in DOMAIN oks |->
            IF oks[i].op = "addParticipant"
            THEN Membership(oks[i].id, oks[i].arg.clubId)
            ELSE Membership(oks[i].arg.participantId, oks[i].arg.clubId)]

CreatedVolunteers(cs) ==
    LET oks == SelectSeq(cs, LAMBDA c : c.result = "ok" /\ c.op = "addVolunteer")
    IN  [i \in DOMAIN oks |-> Volunteer(oks[i].arg.participantId)]

\* the run of this session has ended with its summary, every call it issued
\* resolved with a truthy value, and every New or Existing row was counted as
\* imported
FullySuccessful ==
    /\ \A i \in DOMAIN calls : calls[i].result = "ok"
    /\ \E i \in DOMAIN toasts : toasts[i].type = "success"
    /\ IF kind = "participants"
       THEN stats.created = Cardinality({i \in DOMAIN runRows : runRows[i].status = New})
       ELSE stats.new + stats.existing = Importable(runRows)

\* the parent re-opens the closed modal; its props now hold what the settled
\* writes of the session stored
Reopen ==
    /\ ~isOpen
    /\ pc = "idle"
    /\ Len(participants) + Len(CreatedParticipants(calls)) <= MaxParticipants
    /\ Len(clubMemberships) + Len(CreatedMemberships(calls)) <= MaxParticipants
    /\ Len(volunteers) + Len(CreatedVolunteers(calls)) <= MaxParticipants
    /\ participants' = participants \o CreatedParticipants(calls)
    /\ clubMemberships' =
          IF kind = "members" THEN clubMemberships \o CreatedMemberships(calls)
          ELSE clubMemberships
    /\ volunteers' =
          IF kind = "volunteers" THEN volunteers \o CreatedVolunteers(calls)
          ELSE volunteers
    /\ isOpen' = TRUE
    /\ toasts' = <<>>
    /\ calls' = <<>>
    /\ absorbed' = IF calls = <<>> THEN absorbed ELSE FullySuccessful
    \* the locals of the handleImport that has returned are gone
    /\ runRows' = <<>>
    /\ idx' = 0
    /\ stats' = ZeroStats(kind)
    /\ tempParticipants' = <<>>
    /\ UNCHANGED <<kind, file, step, previewData, pc, selectedColumns>>

Next ==
    \/ Members_processFile
    \/ Volunteers_processFile
    \/ Participants_processFile
    \/ Back
    \/ handleClose
    \/ Members_handleImport
    \/ Members_resume
    \/ Volunteers_handleImport
    \/ Volunteers_resume
    \/ Participants_handleImport
    \/ Participants_resume
    \/ Reopen

Spec == Init /\ [][Next]_vars

\* every awaited call eventually settles, and handleImport then goes on
CallsSettle ==
    /\ WF_vars(Members_resume)
    /\ WF_vars(Volunteers_resume)
    /\ WF_vars(Participants_resume)

LiveSpec == Init /\ [][Next]_vars /\ CallsSettle

-----------------------------------------------------------------------------
(* The club-member importer on files of ScenarioRows rows *)

\* rows of the files: a complete row, the same person in another spelling, and
\* rows without a contact
ScenarioPool ==
    { Row(<<"a">>, <<"x">>, U, U, U, U, U),
      Row(<<"A", " ">>, <<"x">>, U, U, U, U, U),
      Row(<<"a">>, U, U, U, U, U, U),
      Row(<<"a">>, Empty, U, U, U, U, U) }

ScenarioInit ==
    /\ kind = "members"
    /\ file \in {File(CsvType, TRUE, TRUE, rows) : rows \in [1..ScenarioRows -> ScenarioPool]}
    /\ \E people \in InitialPeople(kind) :
          /\ participants = SnapshotParticipants(people)
          /\ clubMemberships = SnapshotMemberships(people)
          /\ volunteers = <<>>
    /\ isOpen = TRUE
    /\ step = "upload"
    /\ previewData = <<>>
    /\ toasts = <<>>
    /\ pc = "idle"
    /\ runRows = <<>>
    /\ idx = 0
    /\ stats = ZeroStats(kind)
    /\ tempParticipants = <<>>
    /\ calls = <<>>
    /\ absorbed = FALSE
    /\ selectedColumns = <<>>

ScenarioNext ==
    \/ Members_processFile
    \/ Back
    \/ handleClose
    \/ Members_handleImport
    \/ Members_resume
    \/ Reopen

ScenarioSpec == ScenarioInit /\ [][ScenarioNext]_vars

-----------------------------------------------------------------------------
(* Export modal (ExportParticipantsModal).  Here participants is the prop    *)
(* participantsToExport and calls logs the exportToCsv calls.                *)

\* the entries of ALL_COLUMNS, in the order of its keys
ALL_COLUMNS ==
    << [key |-> "membershipId", label |-> "Membership ID", default |-> TRUE],
       [key |-> "name", label |-> "Name", default |-> TRUE],
       [key |-> "contact", label |-> "Contact", default |-> TRUE],
       [key |-> "institution", label |-> "Institution", default |-> TRUE],
       [key |-> "membershipStatus", label |-> "Membership Status", default |-> TRUE],
       [key |-> "engagementScore", label |-> "Engagement Score", default |-> TRUE],
       [key |-> "isContestant", label |-> "Is Contestant", default |-> FALSE],
       [key |-> "ghanaCardNumber", label |-> "Ghana Card", default |-> FALSE],
       [key |-> "gender", label |-> "Gender", default |-> FALSE],
       [key |-> "region", label |-> "Region", default |-> FALSE],
       [key |-> "createdAt", label |-> "Date Joined", default |-> FALSE],
       [key |-> "certificateIssued", label |-> "Certificate Issued", default |-> FALSE],
       [key |-> "notes", label |-> "Notes", default |-> FALSE],
       [key |-> "lastMembershipCardGeneratedAt", label |-> "Last Card Generated",
        default |-> FALSE] >>

\* Object.keys(ALL_COLUMNS)
ColumnKeys == [i \in DOMAIN ALL_COLUMNS |-> ALL_COLUMNS[i].key]

IsDefault(column) == column.default

\* the initial selection: the keys whose default is true
DefaultColumns ==
    LET defaults == SelectSeq(ALL_COLUMNS, IsDefault)
    IN  [i \in DOMAIN defaults |-> defaults[i].key]

\* ALL_COLUMNS[key].label
LabelOf(key) == ALL_COLUMNS[CHOOSE i \in DOMAIN ALL_COLUMNS : ALL_COLUMNS[i].key = key].label

\* values of participant fields, by their JavaScript type
JsString(v) == [type |-> "string", v |-> v]
JsNumber(v) == [type |-> "number", v |-> v]
JsBoolean(v) == [type |-> "boolean", v |-> v]
JsDate(v) == [type |-> "Date", v |-> v]
JsUndefined == [type |-> "undefined", v |-> ""]
JsNull == [type |-> "null", v |-> ""]

\* value.toLocaleDateString(): a string that depends on the date and the locale
LocaleDateString(v) == [type |-> "string", v |-> "toLocaleDateString " \o v]

\* a formatting that writes every value as it is
FormatValue_Raw(value) == value

\* the cell handleExport writes for a field value
FormatValue(value) ==
    IF value.type = "Date" THEN LocaleDateString(value.v)
    ELSE IF value.type = "boolean"
    THEN (IF value.v = "true" THEN JsString("Yes") ELSE JsString("No"))
    ELSE IF value.type \in {"undefined", "null"} THEN JsString("")
    ELSE value

\* participants handed to the export
ExportPeople ==
    { [membershipId |-> JsString("M1"), name |-> JsString("a"),
       contact |-> JsString("x"), institution |-> JsString("UG"),
       membershipStatus |-> JsBoolean("true"), engagementScore |-> JsNumber("0"),
       isContestant |-> JsUndefined, ghanaCardNumber |-> JsUndefined,
       gender |-> JsString("Female"), region |-> JsString("Greater Accra"),
       createdAt |-> JsDate("2024-08-01"), certificateIssued |-> JsBoolean("false"),
       notes |-> JsString(""), lastMembershipCardGeneratedAt |-> JsUndefined],
      [membershipId |-> JsString("M2"), name |-> JsString("b"),
       contact |-> JsString("y"), institution |-> JsString("KNUST"),
       membershipStatus |-> JsBoolean("false"), engagementScore |-> JsNull,
       isContestant |-> JsBoolean("true"), ghanaCardNumber |-> JsString("GHA-1"),
       gender |-> JsString("Male"), region |-> JsString("Ashanti"),
       createdAt |-> JsDate("2025-01-15"), certificateIssued |-> JsBoolean("true"),
       notes |-> JsString("n"), lastMembershipCardGeneratedAt |-> JsDate("2025-02-01")] }

\* the columns whose checkbox the operator toggles
ToggleKeys ==
    {"membershipId", "name", "contact", "institution", "membershipStatus",
     "engagementScore", "lastMembershipCardGeneratedAt"}

\* the selection after handleColumnChange(key): delete the key when it is in the
\* set, add it (last in insertion order) when it is not
Toggled(selection, key) ==
    IF key \in Range(selection)
    THEN SelectSeq(selection, LAMBDA k : k # key)
    ELSE Append(selection, key)

\* the selected keys in the order the Set iterates them: insertion order
orderedColumns_Insertion(selection) == selection

\* Object.keys(ALL_COLUMNS).filter(key => selectedColumns.has(key))
orderedColumns(selection) == SelectSeq(ColumnKeys, LAMBDA key : key \in Range(selection))

\* one exported row: its cells, header and value, in the order they were set
exportedRow(participant, columns) ==
    [j \in DOMAIN columns |->
        [header |-> LabelOf(columns[j]), value |-> FormatValue(participant[columns[j]])]]

\* participantsToExport.map(...)
dataToExport(people, selection) ==
    [i \in DOMAIN people |-> exportedRow(people[i], orderedColumns(selection))]

ExportInit ==
    /\ kind = "export"
    /\ file = File(CsvType, TRUE, TRUE, <<>>)
    /\ participants \in SeqsUpTo(ExportPeople, MaxExported)
    /\ clubMemberships = <<>>
    /\ volunteers = <<>>
    /\ isOpen = TRUE
    /\ step = "upload"
    /\ previewData = <<>>
    /\ toasts = <<>>
    /\ pc = "idle"
    /\ runRows = <<>>
    /\ idx = 0
    /\ stats = ZeroStats(kind)
    /\ tempParticipants = <<>>
    /\ calls = <<>>
    /\ absorbed = FALSE
    /\ selectedColumns = DefaultColumns

exportFrame ==
    <<kind, file, absorbed, snapshotVars, step, previewData, pc, runRows, idx, stats,
      tempParticipants>>

\* handleColumnChange(key), from the checkbox of a column
handleColumnChange ==
    /\ kind = "export"
    /\ isOpen
    /\ \E key \in ToggleKeys : selectedColumns' = Toggled(selectedColumns, key)
    /\ UNCHANGED <<exportFrame, isOpen, toasts, calls>>

\* addToast(message, 'error'); return
ExportRefused(text) ==
    /\ Len(toasts) < MaxToasts
    /\ toasts' = Append(toasts, Toast("error", text, [exported |-> 0]))
    /\ UNCHANGED <<calls, isOpen>>

\* handleExport without its two guards
handleExport_Unguarded ==
    /\ kind = "export"
    /\ isOpen
    /\ calls' = Append(calls, [op |-> "exportToCsv", row |-> 0,
                               arg |-> dataToExport(participants, selectedColumns),
                               result |-> "ok", id |-> 0])
    /\ toasts' = Append(toasts, Toast("success", "participants exported successfully!",
                                     [exported |-> Len(participants)]))
    /\ isOpen' = FALSE
    /\ UNCHANGED <<exportFrame, selectedColumns>>

\* handleExport.  The Export CSV button that calls it is rendered disabled while
\* there is no participant or no selected column; the handler tests both again
\* itself, and it is followed here for every state of the open modal.
handleExport ==
    /\ kind = "export"
    /\ isOpen
    /\ IF Len(participants) = 0
       THEN ExportRefused("There are no participants to export with the current filters.")
       ELSE IF Len(selectedColumns) = 0
       THEN ExportRefused("Please select at least one column to export.")
       ELSE /\ calls' = Append(calls, [op |-> "exportToCsv", row |-> 0,
                                        arg |-> dataToExport(participants, selectedColumns),
                                        result |-> "ok", id |-> 0])
            /\ toasts' = Append(toasts, Toast("success", "participants exported successfully!",
                                              [exported |-> Len(participants)]))
            /\ isOpen' = FALSE
    /\ UNCHANGED <<exportFrame, selectedColumns>>

\* onClose, from the Cancel button or the modal's close control
Export_onClose ==
    /\ kind = "export"
    /\ isOpen
    /\ isOpen' = FALSE
    /\ UNCHANGED <<exportFrame, selectedColumns, toasts, calls>>

\* the parent opens the modal again; the selection is kept
Export_open ==
    /\ kind = "export"
    /\ ~isOpen
    /\ isOpen' = TRUE
    /\ toasts' = <<>>
    /\ calls' = <<>>
    /\ UNCHANGED <<exportFrame, selectedColumns>>

ExportNext ==
    \/ handleColumnChange
    \/ handleExport
    \/ Export_onClose
    \/ Export_open

ExportSpec == ExportInit /\ [][ExportNext]_vars

-----------------------------------------------------------------------------
(* Vocabulary of the properties *)

\* the composite key of a name and a contact:
\* lowercase(trim(name)) + "_" + trim(contact)
CompositeKey(name, contact) == Template(toLowerCase(trim(name)), trim(contact))

\* the name and contact cells of a row, as the importer of kind k reads them
NameCell(k, row) == IF k = "participants" THEN Participants_name(row) ELSE row.Name
ContactCell(k, row) ==
    IF k = "participants" THEN Participants_contact(row) ELSE row.Contact

\* a cell that is absent or empty after trimming
Blank(v) == ~Truthy(OptTrim(v))

\* a Role that is missing, empty after trimming or, once trimmed, not a VolunteerRole
BadRole(row) == Blank(row.Role) \/ trim(row.Role) \notin VOLUNTEER_ROLES_LIST

PassesRequiredFields(k, row) ==
    /\ ~Blank(NameCell(k, row))
    /\ ~Blank(ContactCell(k, row))
    /\ k = "volunteers" => ~BadRole(row)

KeyMatches(k, row, p) ==
    CompositeKey(NameCell(k, row), ContactCell(k, row)) = CompositeKey(p.name, p.contact)

\* the snapshot participants whose composite key is the row's
Matching(k, row) == {j \in DOMAIN participants : KeyMatches(k, row, participants[j])}

\* the participant holds the relation the importer attaches
HoldsRelation(p) ==
    IF kind = "members" THEN p.id \in clubMemberIds(clubMemberships)
    ELSE p.id \in volunteerParticipantIds(volunteers)

Already == IF kind = "members" THEN AlreadyMember ELSE AlreadyVolunteer

\* every cell of the row is empty
FullyBlank(row) == \A c \in Columns : ~Truthy(row[c])

NotFullyBlank(row) == ~FullyBlank(row)

\* a run has ended: its summary was shown
SummaryShown ==
    \E i \in DOMAIN toasts :
        toasts[i].text \in {"Import complete!", "Import successful!",
                            "An error occurred during the import process.",
                            "No new participants to import."}

-----------------------------------------------------------------------------
(* Properties *)

\* C1: in the club-member and volunteer importers, once a participant has been
\* created for a composite key during a run, no later row of the run invokes
\* addParticipant for that key again (the later row only attaches the relation).
C1_OneCreatePerKey ==
    kind \in {"members", "volunteers"} =>
        \A i, j \in DOMAIN calls :
            (/\ i < j
             /\ calls[i].op = "addParticipant"
             /\ calls[i].result = "ok"
             /\ calls[j].op = "addParticipant")
            => CompositeKey(calls[i].arg.name, calls[i].arg.contact)
                 # CompositeKey(calls[j].arg.name, calls[j].arg.contact)

\* C2: in every import executor, after a write of a row has failed (resolved
\* falsy or thrown) the run does not stop: when no call is awaited any more,
\* every row has been passed in order and the final summary has been shown.
C2_FailureDoesNotAbort ==
    (pc = "idle" /\ \E i \in DOMAIN calls : calls[i].result \in {"falsy", "throw"})
    => /\ SummaryShown
       /\ kind # "participants" => idx = Len(runRows) + 1

\* C3: after a run of the file in which every write succeeded, with the snapshot
\* refreshed to hold what the writes created, the preview of the same file
\* classifies no row as New or Existing.
C3_ReimportAbsorbed ==
    (absorbed /\ step = "preview")
    => \A i \in DOMAIN previewData : previewData[i].status \notin {New, Existing}

\* C4: in each importer a row matches an existing participant exactly when
\* their composite keys lowercase(trim(name)) + "_" + trim(contact) are equal
\* (contact compared case-sensitively), so the three importers agree.
C4_SameMatchRule ==
    step = "preview" =>
        \A i \in DOMAIN previewData :
            previewData[i].status # Invalid =>
                (previewData[i].status # New
                    <=> Matching(kind, previewData[i].data) # {})

\* C5: in each importer two rows whose names differ only in letter case and in
\* leading/trailing whitespace, with equal contacts (and equal other cells),
\* receive the same classification.
C5_CaseAndPaddingIgnored ==
    step = "preview" =>
        \A i, j \in DOMAIN previewData :
            LET ri == previewData[i].data
                rj == previewData[j].data
            IN  (/\ ~Blank(NameCell(kind, ri))
                 /\ toLowerCase(trim(NameCell(kind, ri))) = toLowerCase(trim(NameCell(kind, rj)))
                 /\ ContactCell(kind, ri) = ContactCell(kind, rj)
                 /\ ri.Role = rj.Role
                 /\ ri.StartDate = rj.StartDate)
                => previewData[i].status = previewData[j].status

\* C6: in the club-member and volunteer previews a row that passes the
\* required-field validation is Already-a-Member/Volunteer iff its key matches a
\* participant holding the relation, Existing iff its key matches a participant
\* not holding it, and New iff its key matches no participant.
C6_ThreeStatuses ==
    (kind \in {"members", "volunteers"} /\ step = "preview") =>
        \A i \in DOMAIN previewData :
            LET row == previewData[i].data
                status == previewData[i].status
                matches == {participants[j] : j \in Matching(kind, row)}
            IN  PassesRequiredFields(kind, row) =>
                    /\ status \in {Already, Existing, New}
                    /\ status = Already <=> \E p \in matches : HoldsRelation(p)
                    /\ status = Existing <=> \E p \in matches : ~HoldsRelation(p)
                    /\ status = New <=> matches = {}

\* C7: in all three importers a previewed row whose name or contact is absent
\* or empty after trimming is classified Invalid.
C7_BlankIsInvalid ==
    step = "preview" =>
        \A i \in DOMAIN previewData :
            (\/ Blank(NameCell(kind, previewData[i].data))
             \/ Blank(ContactCell(kind, previewData[i].data)))
            => previewData[i].status = Invalid

\* C8: in the volunteer importer a row whose Role is missing, empty after
\* trimming or (trimmed) not one of the five volunteer roles is classified
\* Invalid, and the executor issues neither addParticipant nor addVolunteer for it.
C8_BadRoleNeverWritten ==
    kind = "volunteers" =>
        /\ \A i \in DOMAIN previewData :
              BadRole(previewData[i].data) => previewData[i].status = Invalid
        /\ \A i \in DOMAIN runRows :
              BadRole(runRows[i].data) =>
                  /\ runRows[i].status = Invalid
                  /\ pc # "idle" \/ calls # <<>> =>
                        \A c \in DOMAIN calls : calls[c].row # i

\* C8 witness: a run that issued writes has passed a row with a bad role.
C8_Witness ==
    /\ kind = "volunteers"
    /\ pc = "idle"
    /\ calls # <<>>
    /\ \E i \in DOMAIN runRows : BadRole(runRows[i].data) /\ i < idx

\* C9: in every importer the preview is the parsed row sequence with exactly
\* the fully blank rows removed, in source order.
C9_OnlyBlankRowsDropped ==
    step = "preview" =>
        [i \in DOMAIN previewData |-> previewData[i].data]
            = SelectSeq(file.rows, NotFullyBlank)

\* C10: in the club-member import a row whose name and contact equal those of
\* existing participants only of institutions other than the club's is
\* classified New.
C10_InstitutionScoped ==
    (kind = "members" /\ step = "preview") =>
        \A i \in DOMAIN previewData :
            LET row == previewData[i].data
                same == {j \in DOMAIN participants :
                            /\ participants[j].name = row.Name
                            /\ participants[j].contact = row.Contact}
            IN  (/\ same # {}
                 /\ \A j \in same : participants[j].institution # club.institution)
                => previewData[i].status = New

\* C11: building the preview performs no write.  While the modal is open in the
\* 'upload' or 'preview' step no persistence call has been issued, and a step
\* that issues one is either the confirmation (from 'preview' into 'importing')
\* or the continuation of a confirmed run.
C11_PreviewWritesNothing ==
    /\ [](isOpen /\ step \in {"upload", "preview"} => calls = <<>>)
    /\ [][Len(calls') > Len(calls) =>
            \/ pc # "idle"
            \/ step = "preview" /\ step' = "importing"]_vars

\* C11 witness: a preview with importable rows is shown and nothing was written.
C11_Witness ==
    /\ isOpen
    /\ step = "preview"
    /\ Importable(previewData) # 0
    /\ calls = <<>>

\* the rows of the run that the loop has left behind
PassedRows == {i \in DOMAIN runRows : i < idx}

\* the calls issued for row i of the run
CallsOf(i) == {c \in DOMAIN calls : calls[c].row = i}

\* a StartDate cell that is non-empty and is not a date
BadStartDate(row) ==
    Truthy(row.data.StartDate) /\ row.data.StartDate \notin ParseableDates

\* the passed rows the volunteer executor has to count as failed: a bad start
\* date, a rejected call, no participant from addParticipant, or no participant
\* found for an Existing row
Volunteers_failedRows ==
    {i \in PassedRows :
        /\ runRows[i].status \in {New, Existing}
        /\ \/ BadStartDate(runRows[i])
           \/ \E c \in CallsOf(i) : calls[c].result = "throw"
           \/ \E c \in CallsOf(i) :
                 calls[c].op = "addParticipant" /\ calls[c].result = "falsy"
           \/ CallsOf(i) = {}}

\* C12: in the volunteer importer a New or Existing row with a non-empty
\* StartDate that is not a date gets no addParticipant and no addVolunteer call
\* and is counted as failed; a row with an empty or absent StartDate is written
\* with the current time as start date and is counted as failed only when its
\* write fails.
C12_StartDateHandling ==
    kind = "volunteers" =>
        /\ \A i \in DOMAIN runRows :
              runRows[i].status \in {New, Existing} =>
                  /\ BadStartDate(runRows[i]) => CallsOf(i) = {}
                  /\ ~Truthy(runRows[i].data.StartDate) =>
                        \A c \in CallsOf(i) :
                            calls[c].op = "addVolunteer"
                                => calls[c].arg.startDate = <<"now">>
        /\ stats.failed = Cardinality(Volunteers_failedRows)
        /\ stats.new + stats.existing =
              Cardinality({i \in PassedRows \ Volunteers_failedRows :
                              runRows[i].status \in {New, Existing}})

\* C12 witness: a finished run passed a row with a bad start date and wrote a
\* volunteer record, dated now, for a row without a start date.
C12_Witness ==
    /\ kind = "volunteers"
    /\ pc = "idle"
    /\ SummaryShown
    /\ \E i \in PassedRows :
          runRows[i].status \in {New, Existing} /\ BadStartDate(runRows[i])
    /\ \E c \in DOMAIN calls :
          /\ calls[c].op = "addVolunteer"
          /\ calls[c].result = "ok"
          /\ ~Truthy(runRows[calls[c].row].data.StartDate)

\* the uploaded file is refused for its type, or parseCsv fails on it
UploadRejected ==
    \/ file.type # CsvType /\ (kind = "participants" => ~file.csvName)
    \/ ~file.parses

\* an upload handed to processFile
UploadStep == Members_processFile \/ Volunteers_processFile \/ Participants_processFile

\* C13: when the uploaded file is refused for its type or parseCsv fails, the
\* import is aborted before any write: no persistence call is ever issued, the
\* step stays 'upload', the preview stays empty, and each upload of the file
\* reports exactly one error.
C13_RejectedUploadAborts ==
    /\ [](UploadRejected =>
            /\ calls = <<>>
            /\ step = "upload"
            /\ previewData = <<>>
            /\ \A i \in DOMAIN toasts : toasts[i].type = "error")
    /\ [][UploadRejected /\ UploadStep =>
            /\ Len(toasts') = Len(toasts) + 1
            /\ toasts'[Len(toasts')].type = "error"
            /\ calls' = calls
            /\ pc' = "idle"]_vars

\* C13 witness: a refused file was uploaded and its error has been reported.
C13_Witness ==
    /\ UploadRejected
    /\ isOpen
    /\ Len(toasts) = 1
    /\ toasts[1].type = "error"

\* the failed count of a stats accumulator (0 when it has no such counter)
FailedCount(st) == IF "failed" \in DOMAIN st THEN st.failed ELSE 0

\* the rows of the run a step of whose write has failed: a create or attach call
\* that resolved falsy or was rejected, or an Existing row passed without a
\* participant to attach to
WriteFailedRows ==
    {i \in DOMAIN runRows :
        /\ runRows[i].status \in {New, Existing}
        /\ \/ \E c \in CallsOf(i) : calls[c].result \in {"falsy", "throw"}
           \/ i \in PassedRows /\ CallsOf(i) = {}}

\* C14: in the club-member and volunteer executors the failed count is the
\* number of rows a step of whose write has failed, and such a row is counted
\* neither as new or existing nor as skipped.
C14_FailedRowsCounted ==
    kind \in {"members", "volunteers"} =>
        /\ FailedCount(stats) = Cardinality(WriteFailedRows)
        /\ stats.new + stats.existing =
              Cardinality({i \in PassedRows \ WriteFailedRows :
                              runRows[i].status \in {New, Existing}})
        /\ stats.skipped =
              Cardinality({i \in PassedRows :
                              runRows[i].status \notin {New, Existing}})

\* C15: while a write of a confirmed run is awaited the modal is open in the
\* 'importing' step: it has not been closed or reset to 'upload', the step from
\* which a second preview could be started.
C15_BlockedWhileImporting ==
    pc # "idle" =>
        /\ isOpen
        /\ step = "importing"

\* a batch of three rows: row 1 is complete and its key is absent from the
\* snapshot, row 2 has the name and contact of row 1, row 3 has no contact
ThreeRowScenario(rows) ==
    /\ Len(rows) = 3
    /\ PassesRequiredFields(kind, rows[1].data)
    /\ Matching(kind, rows[1].data) = {}
    /\ rows[2].data.Name = rows[1].data.Name
    /\ rows[2].data.Contact = rows[1].data.Contact
    /\ ~Truthy(rows[3].data.Contact)

\* C16: in the club-member importer the three-row scenario is previewed as
\* New, New, Invalid, and a run of it in which every write succeeded reports
\* 2 new, 0 existing and 1 skipped.
C16_ThreeRowScenario ==
    kind = "members" =>
        /\ (step = "preview" /\ ThreeRowScenario(previewData)) =>
              [i \in 1..3 |-> previewData[i].status] = <<New, New, Invalid>>
        /\ (/\ ThreeRowScenario(runRows)
            /\ pc = "idle"
            /\ SummaryShown
            /\ \A c \in DOMAIN calls : calls[c].result = "ok") =>
              /\ stats = [new |-> 2, existing |-> 0, skipped |-> 1]
              /\ toasts[Len(toasts)].stats = stats

\* C16 witness: a run of the three-row scenario ended with both creations done.
C16_Witness ==
    /\ kind = "members"
    /\ ThreeRowScenario(runRows)
    /\ pc = "idle"
    /\ SummaryShown
    /\ Len(calls) = 2
    /\ \A c \in DOMAIN calls : calls[c].result = "ok"

\* C17: in the club-member importer no participant holds two memberships of the
\* same club, and a run never requests a membership for a participant who is
\* already a member in the snapshot or for whom the run has requested one.
C17_OneMembershipPerClub ==
    kind = "members" =>
        /\ \A i, j \in DOMAIN clubMemberships :
              (/\ i # j
               /\ clubMemberships[i].participantId = clubMemberships[j].participantId)
              => clubMemberships[i].clubId # clubMemberships[j].clubId
        /\ \A c \in DOMAIN calls :
              calls[c].op = "addClubMembership" =>
                  /\ calls[c].arg.participantId \notin clubMemberIds(clubMemberships)
                  /\ \A d \in 1..(c - 1) :
                        calls[d].op = "addClubMembership" =>
                            \/ calls[d].arg.participantId # calls[c].arg.participantId
                            \/ calls[d].arg.clubId # calls[c].arg.clubId

\* C18: in the volunteer importer no participant has two volunteer records, and
\* a run invokes addVolunteer at most once per participant and never for a
\* participant who is already a volunteer in the snapshot.
C18_OneVolunteerRecord ==
    kind = "volunteers" =>
        /\ \A i, j \in DOMAIN volunteers :
              i # j => volunteers[i].participantId # volunteers[j].participantId
        /\ \A c \in DOMAIN calls :
              calls[c].op = "addVolunteer" =>
                  /\ calls[c].arg.participantId \notin volunteerParticipantIds(volunteers)
                  /\ \A d \in 1..(c - 1) :
                        calls[d].op = "addVolunteer" =>
                            calls[d].arg.participantId # calls[c].arg.participantId

\* a step of an import executor
ImportStep ==
    \/ Members_handleImport
    \/ Members_resume
    \/ Volunteers_handleImport
    \/ Volunteers_resume
    \/ Participants_handleImport
    \/ Participants_resume

\* C19: preview and execution leave the snapshot collections as they were passed
\* in, element for element; the participants a club-member run creates are
\* appended, in order, to the run's own copy of the snapshot only.
C19_SnapshotsUntouched ==
    /\ [][UploadStep \/ ImportStep => snapshotVars' = snapshotVars]_vars
    /\ []((kind = "members" /\ runRows # <<>>) =>
             tempParticipants = participants \o CreatedParticipants(calls))

\* C19 witness: a club-member run has appended a created participant to its copy.
C19_Witness ==
    /\ kind = "members"
    /\ runRows # <<>>
    /\ Len(tempParticipants) > Len(participants)

\* an export has nothing to write: no participant, or no selected column
NothingToExport == Len(participants) = 0 \/ Len(selectedColumns) = 0

\* a step of handleExport: the only step of the open export modal that adds a toast
ExportRequested == kind = "export" /\ isOpen /\ toasts' # toasts

\* C20: an export requested with zero participants or zero selected columns adds
\* one error toast and nothing else: exportToCsv is not called and the modal stays
\* open; hence every exportToCsv call carries at least one row, and every row at
\* least one cell.
C20_EmptyExportRefused ==
    /\ [][ExportRequested /\ NothingToExport =>
            /\ calls' = calls
            /\ isOpen'
            /\ Len(toasts') = Len(toasts) + 1
            /\ toasts'[Len(toasts')].type = "error"]_vars
    /\ [](kind = "export" =>
             \A c \in DOMAIN calls :
                 /\ calls[c].arg # <<>>
                 /\ \A i \in DOMAIN calls[c].arg : calls[c].arg[i] # <<>>)

\* C20 witness: with participants at hand and every column deselected, an export
\* was requested: the error is shown, nothing was written, the modal is open.
C20_Witness ==
    /\ kind = "export"
    /\ isOpen
    /\ Len(participants) > 0
    /\ Len(selectedColumns) = 0
    /\ calls = <<>>
    /\ \E t \in DOMAIN toasts :
          /\ toasts[t].type = "error"
          /\ toasts[t].text = "Please select at least one column to export."

\* the exportToCsv calls logged
ExportCalls == {c \in DOMAIN calls : calls[c].op = "exportToCsv"}

\* the cells of an exported row under a header
CellsOf(row, header) == {j \in DOMAIN row : row[j].header = header}

\* C21: in every exportToCsv call, for every participant and every selected
\* column the row of the participant has a cell under the column's label, which
\* is the locale date string of a date, "Yes" / "No" for true / false, the empty
\* string for null and undefined, and the field value itself otherwise.
C21_ValueFormatting ==
    kind = "export" =>
        \A c \in ExportCalls :
            \A i \in DOMAIN participants :
                \A key \in Range(selectedColumns) :
                    LET value == participants[i][key]
                        cells == CellsOf(calls[c].arg[i], LabelOf(key))
                    IN  /\ Cardinality(cells) = 1
                        /\ \A j \in cells :
                              calls[c].arg[i][j].value =
                                 CASE value.type = "Date" -> LocaleDateString(value.v)
                                   [] value.type = "boolean" /\ value.v = "true" -> JsString("Yes")
                                   [] value.type = "boolean" /\ value.v # "true" -> JsString("No")
                                   [] value.type \in {"null", "undefined"} -> JsString("")
                                   [] OTHER -> value

\* C21 witness: an export of two participants whose selected columns hold a
\* date and an unset field, true and false, a number and null, and strings.
C21_Witness ==
    /\ kind = "export"
    /\ ExportCalls # {}
    /\ Len(participants) = 2
    /\ participants[1] # participants[2]
    /\ {"lastMembershipCardGeneratedAt", "membershipStatus", "engagementScore", "name"}
          \subseteq Range(selectedColumns)

\* the place of a header label among the entries of ALL_COLUMNS
ColumnIndex(label) == CHOOSE i \in DOMAIN ALL_COLUMNS : ALL_COLUMNS[i].label = label

\* C22: every exportToCsv call carries one row per participant, row i made from
\* participant i; each row holds one cell per selected column and no other cell,
\* and its cells follow the order of ALL_COLUMNS, whatever the order in which
\* the columns were added to the selection.
C22_RowsAndColumnOrder ==
    kind = "export" =>
        \A c \in ExportCalls :
            /\ Len(calls[c].arg) = Len(participants)
            /\ \A i \in DOMAIN calls[c].arg :
                  LET row == calls[c].arg[i] IN
                  /\ {row[j].header : j \in DOMAIN row}
                        = {LabelOf(key) : key \in Range(selectedColumns)}
                  /\ Len(row) = Cardinality(Range(selectedColumns))
                  /\ \A j, k \in DOMAIN row :
                        j < k => ColumnIndex(row[j].header) < ColumnIndex(row[k].header)
                  /\ \A j \in DOMAIN row :
                        row[j].value =
                           FormatValue(participants[i][ALL_COLUMNS[ColumnIndex(row[j].header)].key])

\* C22 witness: two different participants were exported with a selection whose
\* insertion order is not the order of ALL_COLUMNS.
C22_Witness ==
    /\ kind = "export"
    /\ ExportCalls # {}
    /\ Len(participants) = 2
    /\ participants[1] # participants[2]
    /\ \E j, k \in DOMAIN selectedColumns :
          /\ j < k
          /\ ColumnIndex(LabelOf(selectedColumns[j])) > ColumnIndex(LabelOf(selectedColumns[k]))

\* the rows of the run the executor skips for their status
SkipRows == {i \in DOMAIN runRows : runRows[i].status \in {Invalid, Already}}

\* the passed New and Existing rows the club-member executor counts as skipped:
\* a call resolved falsy, or no participant was found to attach to
Members_countedSkipped ==
    {i \in PassedRows \ SkipRows :
        \/ CallsOf(i) = {}
        \/ \E c \in CallsOf(i) : calls[c].result = "falsy"}

\* C23: in the club-member and volunteer executors a row with status Invalid or
\* Already-a-Member / Already-a-Volunteer gets no call, and each such row passed
\* adds one to skipped and nothing to any other counter: skipped is the number
\* of those rows passed (plus, in the club-member executor, the New and Existing
\* rows it counts as skipped), and the other counters add up to the remaining
\* passed rows.
C23_SkippedRows ==
    kind \in {"members", "volunteers"} =>
        /\ \A i \in SkipRows : CallsOf(i) = {}
        /\ stats.skipped =
              Cardinality(SkipRows \cap PassedRows)
              + (IF kind = "members" THEN Cardinality(Members_countedSkipped) ELSE 0)
        /\ stats.new + stats.existing + FailedCount(stats) =
              Cardinality(PassedRows \ SkipRows)
              - (IF kind = "members" THEN Cardinality(Members_countedSkipped) ELSE 0)

\* C23 witness: a run that has ended passed a row of either skipped status and
\* issued a write for another row.
C23_Witness ==
    /\ kind \in {"members", "volunteers"}
    /\ pc = "idle"
    /\ calls # <<>>
    /\ \E i \in SkipRows \cap PassedRows : runRows[i].status = Already

\* the collection the executor looks an Existing row up in: the run's copy of
\* the snapshot with its creations (club members), the participants prop the
\* participantMap is built from (volunteers)
ShadowCopy == IF kind = "members" THEN tempParticipants ELSE participants

\* the participants of the shadow copy whose composite key is the row's
ShadowMatching(row) ==
    {j \in DOMAIN ShadowCopy : KeyMatches(kind, row, ShadowCopy[j])}

AttachOp == IF kind = "members" THEN "addClubMembership" ELSE "addVolunteer"

\* C24: in the club-member and volunteer executors a passed row with status
\* Existing (and a usable start date) gets no addParticipant call; when the shadow copy holds a participant
\* with the row's composite key the row gets exactly one call, the attach
\* operation with the id of such a participant, and otherwise it gets no call.
C24_ExistingOnlyAttaches ==
    kind \in {"members", "volunteers"} =>
        \A i \in PassedRows :
            (runRows[i].status = Existing /\ ~BadStartDate(runRows[i])) =>
                /\ \A c \in CallsOf(i) : calls[c].op # "addParticipant"
                /\ IF ShadowMatching(runRows[i].data) # {}
                   THEN /\ Cardinality(CallsOf(i)) = 1
                        /\ \A c \in CallsOf(i) :
                              /\ calls[c].op = AttachOp
                              /\ \E j \in ShadowMatching(runRows[i].data) :
                                    ShadowCopy[j].id = calls[c].arg.participantId
                   ELSE CallsOf(i) = {}

\* the calls that have neither resolved nor rejected yet
Outstanding == {c \in DOMAIN calls : calls[c].result = "pending"}

\* C25: in a run of the club-member or volunteer executor at most one call is
\* outstanding, it is the last one issued, and the calls were issued in the
\* order of the preview rows: when a call is issued every earlier call, of this
\* row or of an earlier one, has resolved or rejected.
C25_OneWriteAtATime ==
    kind \in {"members", "volunteers"} =>
        /\ Cardinality(Outstanding) <= 1
        /\ Outstanding \subseteq {Len(calls)}
        /\ Outstanding # {} <=> pc # "idle"
        /\ \A c, d \in DOMAIN calls : c < d => calls[c].row <= calls[d].row

\* C25 witness: a call for a later row is outstanding after the call of an
\* earlier row has settled.
C25_Witness ==
    /\ kind \in {"members", "volunteers"}
    /\ Len(calls) >= 2
    /\ Outstanding = {Len(calls)}
    /\ calls[1].row < calls[Len(calls)].row

\* a run was started and handleImport is no longer running or waiting
RunEnded == runRows # <<>> /\ pc = "idle"

\* C26: when a run of the club-member or volunteer executor has ended, the
\* counters add up to the number of preview rows: each row was counted once,
\* whether its writes succeeded, resolved falsy or threw.
C26_EveryRowCounted ==
    (kind \in {"members", "volunteers"} /\ RunEnded) =>
        stats.new + stats.existing + stats.skipped + FailedCount(stats) = Len(runRows)

\* C27: in the club-member and volunteer importers every row classified
\* Existing (with a usable start date) that the executor has passed got its
\* attach call, and the key the volunteer executor looks the row up under is the
\* key the preview classified it under.
C27_ExistingRowsFound ==
    kind \in {"members", "volunteers"} =>
        \A i \in PassedRows :
            (runRows[i].status = Existing /\ ~BadStartDate(runRows[i])) =>
                /\ \E c \in CallsOf(i) : calls[c].op = AttachOp
                /\ kind = "volunteers" =>
                      Volunteers_importKey(runRows[i]) = Volunteers_previewKey(runRows[i].data)

\* C28: provided every awaited call settles, a run that waits for a write
\* eventually ends: handleImport has returned, its summary (or error) was
\* reported, and the modal is back in the 'upload' step with an empty preview.
C28_RunsEnd ==
    (pc # "idle") ~>
        (/\ pc = "idle"
         /\ SummaryShown
         /\ step = "upload"
         /\ previewData = <<>>)

\* the rows of the run classified New, in preview order
NewRows == SelectSeq(runRows, IsNew)

\* the addMultipleParticipants calls logged
BulkCalls == {c \in DOMAIN calls : calls[c].op = "addMultipleParticipants"}

\* C29: in the participant importer the name and contact handed to
\* addMultipleParticipants for a row classified New have the composite key the
\* preview classified the row under.
C29_WrittenKeyIsPreviewKey ==
    kind = "participants" =>
        \A c \in BulkCalls :
            \A j \in DOMAIN calls[c].arg :
                j \in DOMAIN NewRows =>
                    CompositeKey(calls[c].arg[j].name, calls[c].arg[j].contact)
                        = CompositeKey(NameCell(kind, NewRows[j].data),
                                       ContactCell(kind, NewRows[j].data))

\* importSummary.new of the preview shown
PreviewedNew == Cardinality({i \in DOMAIN previewData : previewData[i].status = New})

\* C30: a run of the participant importer issues at most one call, an
\* addMultipleParticipants whose argument holds one element for each row
\* classified New, in preview order, and none for any other row; from a preview
\* without a New row no call is issued.
C30_OneBulkCallOfNewRows ==
    /\ [](kind = "participants" =>
            /\ Len(calls) <= 1
            /\ \A c \in DOMAIN calls :
                  /\ calls[c].op = "addMultipleParticipants"
                  /\ Len(calls[c].arg) = Len(NewRows)
                  /\ \A j \in DOMAIN NewRows :
                        calls[c].arg[j] = Participants_toCreate(NewRows[j]))
    /\ [][(kind = "participants" /\ step = "preview" /\ PreviewedNew = 0)
            => calls' = calls]_vars

\* C30 witness: the call of a run whose preview held New rows and other rows.
C30_Witness ==
    /\ kind = "participants"
    /\ Len(calls) = 1
    /\ Len(NewRows) >= 1
    /\ Len(NewRows) < Len(runRows)

=============================================================================
